---------------------------- MODULE Spec2Model ----------------------------
(***************************************************************************)
(* AudioV: MIDI note parsing (src/src/audiov/midi_sheet.py) and the        *)
(* keyframe schedule of the Blender step (src/scripts/run_step1_blender.py).*)
(*                                                                         *)
(* Seconds are Python floats in the source.  Here a time in seconds is an   *)
(* exact rational <<n, d>> in lowest terms with d > 0: the arithmetic of    *)
(* the source without its rounding error.                                  *)
(***************************************************************************)
EXTENDS Integers, Sequences, FiniteSets, TLC

VARIABLES
    mid,        \* the decoded file: [ticks_per_beat, tracks], tracks a sequence of message sequences
    pc,         \* position in the program: "load", "scan", "done", "normalized",
                \* "main", "follow_path", "path_done", "animate", "animated"
    tempo_map,  \* result of _collect_tempo_map: sequence of <<tick, tempo>>
    track_idx,  \* enumerate(mid.tracks) index, 0-based
    msg_idx,    \* 1-based index of the next message of the current track
    abs_tick,   \* running sum of msg.time in the current track
    active,     \* dict (channel, note) -> (start_tick, velocity) of the current track
    events,     \* the emitted NoteEvents, in emission order
    result,     \* the list parse_midi_notes returns
    normalized, \* the call of normalize_notes: its arguments and what it returned
    secs,       \* the calls of _tick_to_seconds made so far: tick -> seconds returned
    anim_args,  \* the arguments of animate_bounce_and_flash: [notes, fps, bounce_len_s, light_len_s]
    note_i,     \* 1-based index of the next note of its loop
    z_keys,     \* keyframes of the drop's location z: frame -> value
    energy_keys,    \* keyframes of the light's energy: frame -> value
    emission_keys,  \* keyframes of the drop material's emission strength: frame -> value
    path_args,  \* the arguments of animate_drop_follow_path: [fps, total_duration_s, start_frame]
    offset_keys,    \* keyframes of the FOLLOW_PATH constraint's offset_factor: frame -> value
    key_log     \* the calls of keyframe_insert made so far, in order: <<property, frame, value>>

scanVars == <<track_idx, msg_idx, abs_tick, active, events>>
normVars == <<normalized>>
tickVars == <<secs>>
animVars == <<anim_args, note_i, z_keys, energy_keys, emission_keys,
              path_args, offset_keys, key_log>>

vars == <<mid, pc, tempo_map, scanVars, result, normVars, tickVars, animVars>>

----------------------------------------------------------------------------
(* Bounds of the model. *)

MaxTracks == 2
MaxMsgs == 4

\* mid.ticks_per_beat of the files parsed
TicksPerBeat == 480

\* line 22: the tempo a file starts with
DefaultTempo == 500000

NoteOnMsg(t, ch, n, v) == [type |-> "note_on", time |-> t, channel |-> ch, note |-> n, velocity |-> v]
NoteOffMsg(t, ch, n) == [type |-> "note_off", time |-> t, channel |-> ch, note |-> n, velocity |-> 0]
SetTempoMsg(t, tempo) == [type |-> "set_tempo", time |-> t, tempo |-> tempo]

\* The messages a file of Spec is made of: one key (channel 0, note 60) struck,
\* struck again later, released, and closed by a velocity-0 note_on on the spot;
\* the same note on another channel; another note on the same channel; a tempo change.
Msgs ==
    { NoteOnMsg(0, 0, 60, 100),
      NoteOnMsg(10, 0, 60, 90),
      NoteOffMsg(10, 0, 60),
      NoteOnMsg(0, 0, 60, 0),
      NoteOnMsg(0, 1, 60, 90),
      NoteOnMsg(0, 0, 61, 100),
      NoteOffMsg(10, 0, 61),
      SetTempoMsg(10, 250000) }

\* The messages a file of SpecMain is made of: tempo changes that can meet on one
\* tick, at tick 0 or later, in one track or in several, around one note.
MainFileMsgs ==
    { SetTempoMsg(0, 250000),
      SetTempoMsg(10, 250000),
      SetTempoMsg(0, 1000000),
      SetTempoMsg(10, 1000000),
      NoteOnMsg(0, 0, 60, 100),
      NoteOffMsg(10, 0, 60) }

----------------------------------------------------------------------------
(* Exact rationals standing for the floats of the source. *)

RECURSIVE Gcd(_, _)
Gcd(a, b) == IF b = 0 THEN a ELSE Gcd(b, a % b)

Abs(x) == IF x < 0 THEN -x ELSE x

\* n / d in lowest terms, d > 0
Rat(n, d) ==
    LET g == Gcd(Abs(n), d)
    IN  <<n \div g, d \div g>>

Zero == <<0, 1>>

RatAdd(a, b) == Rat(a[1] * b[2] + b[1] * a[2], a[2] * b[2])
RatLess(a, b) == a[1] * b[2] < b[1] * a[2]
RatLeq(a, b) == a[1] * b[2] <= b[1] * a[2]

----------------------------------------------------------------------------
(* Dictionaries (Python dict) as functions. *)

EmptyDict == [k \in {} |-> 0]

\* an assignment that leaves an existing entry alone
DictSet_keep_first(d, k, v) ==
    [x \in (DOMAIN d) \cup {k} |-> IF x \in DOMAIN d THEN d[x] ELSE v]

\* d[k] = v
DictSet(d, k, v) == [x \in (DOMAIN d) \cup {k} |-> IF x = k THEN v ELSE d[x]]

DictPop(d, k) == [x \in (DOMAIN d) \ {k} |-> d[x]]

----------------------------------------------------------------------------
(* _collect_tempo_map *)

RECURSIVE ScanTempo(_, _, _, _)
\* lines 24-28: one track's set_tempo messages appended to changes
ScanTempo(tr, i, tick, changes) ==
    IF i > Len(tr) THEN changes
    ELSE LET t == tick + tr[i].time
         IN  ScanTempo(tr, i + 1, t,
                 IF tr[i].type = "set_tempo"
                 THEN Append(changes, <<t, tr[i].tempo>>)
                 ELSE changes)

RECURSIVE CollectChanges(_, _, _)
\* lines 22-28: every track scanned in index order
CollectChanges(tracks, k, changes) ==
    IF k > Len(tracks) THEN changes
    ELSE CollectChanges(tracks, k + 1, ScanTempo(tracks[k], 1, 0, changes))

RECURSIVE InsertByTick_unstable(_, _)
\* insertion that puts x before the elements of its own tick
InsertByTick_unstable(sorted, x) ==
    IF sorted = <<>> THEN <<x>>
    ELSE IF Head(sorted)[1] < x[1]
         THEN <<Head(sorted)>> \o InsertByTick_unstable(Tail(sorted), x)
         ELSE <<x>> \o sorted

RECURSIVE InsertByTick(_, _)
\* stable insertion: x goes after every element whose tick is <= its own
InsertByTick(sorted, x) ==
    IF sorted = <<>> THEN <<x>>
    ELSE IF Head(sorted)[1] <= x[1]
         THEN <<Head(sorted)>> \o InsertByTick(Tail(sorted), x)
         ELSE <<x>> \o sorted

RECURSIVE SortByTick(_, _)
\* line 30: changes.sort(key=tick), a stable sort
SortByTick(seq, acc) ==
    IF seq = <<>> THEN acc
    ELSE SortByTick(Tail(seq), InsertByTick(acc, Head(seq)))

RECURSIVE Dedup(_, _)
\* lines 33-35: dedup[tick] = tempo, in list order, a later entry replacing an earlier one
Dedup(changes, d) ==
    IF changes = <<>> THEN d
    ELSE Dedup(Tail(changes), DictSet(d, Head(changes)[1], Head(changes)[2]))

RECURSIVE SortedItems(_)
\* line 37: sorted(dedup.items(), key=tick)
SortedItems(d) ==
    IF DOMAIN d = {} THEN <<>>
    ELSE LET k == CHOOSE x \in DOMAIN d : \A y \in DOMAIN d : x <= y
         IN  <<<<k, d[k]>>>> \o SortedItems([x \in (DOMAIN d) \ {k} |-> d[x]])

\* the map without the same-tick deduplication of lines 33-37
_collect_tempo_map_no_dedup(m) ==
    SortByTick(CollectChanges(m.tracks, 1, <<<<0, DefaultTempo>>>>), <<>>)

\* lines 20-40
_collect_tempo_map(m) ==
    LET changes == SortByTick(CollectChanges(m.tracks, 1, <<<<0, DefaultTempo>>>>), <<>>)
        out == SortedItems(Dedup(changes, EmptyDict))
    IN  IF out = <<>> \/ out[1][1] # 0
        THEN <<<<0, DefaultTempo>>>> \o out
        ELSE out

----------------------------------------------------------------------------
(* _tick_to_seconds *)

\* mido.tick2second(tick, ticks_per_beat, tempo): tick * (tempo * 1e-6 / ticks_per_beat)
tick2second(tick, tpq, tempo) == Rat(tick * tempo, 1000000 * tpq)

RECURSIVE TickLoop_new_tempo(_, _, _, _, _, _, _)
\* the loop with a finished segment timed at the tempo that ends it
TickLoop_new_tempo(tick, tpq, tmap, i, total, prev_tick, prev_tempo) ==
    IF i <= Len(tmap) /\ ~(tmap[i][1] >= tick)
    THEN LET dt == tmap[i][1] - prev_tick
         IN  TickLoop_new_tempo(tick, tpq, tmap, i + 1,
                 IF dt > 0 THEN RatAdd(total, tick2second(dt, tpq, tmap[i][2])) ELSE total,
                 tmap[i][1], tmap[i][2])
    ELSE LET remaining == tick - prev_tick
         IN  IF remaining > 0
             THEN RatAdd(total, tick2second(remaining, tpq, prev_tempo))
             ELSE total

RECURSIVE TickLoop_reset_total(_, _, _, _, _, _, _)
\* the loop with total assigned where it is accumulated
TickLoop_reset_total(tick, tpq, tmap, i, total, prev_tick, prev_tempo) ==
    IF i <= Len(tmap) /\ ~(tmap[i][1] >= tick)
    THEN LET dt == tmap[i][1] - prev_tick
         IN  TickLoop_reset_total(tick, tpq, tmap, i + 1,
                 IF dt > 0 THEN tick2second(dt, tpq, prev_tempo) ELSE total,
                 tmap[i][1], tmap[i][2])
    ELSE LET remaining == tick - prev_tick
         IN  IF remaining > 0
             THEN tick2second(remaining, tpq, prev_tempo)
             ELSE total

RECURSIVE TickLoop(_, _, _, _, _, _, _)
\* lines 52-63: the loop over tempo_map[1:] with its break, then the remainder
TickLoop(tick, tpq, tmap, i, total, prev_tick, prev_tempo) ==
    IF i <= Len(tmap) /\ ~(tmap[i][1] >= tick)
    THEN LET dt == tmap[i][1] - prev_tick
         IN  TickLoop(tick, tpq, tmap, i + 1,
                 IF dt > 0 THEN RatAdd(total, tick2second(dt, tpq, prev_tempo)) ELSE total,
                 tmap[i][1], tmap[i][2])
    ELSE LET remaining == tick - prev_tick
         IN  IF remaining > 0
             THEN RatAdd(total, tick2second(remaining, tpq, prev_tempo))
             ELSE total

\* lines 43-65
_tick_to_seconds(tick, tpq, tmap) ==
    IF tick <= 0 THEN Zero
    ELSE TickLoop(tick, tpq, tmap, 2, Zero, tmap[1][1], tmap[1][2])

----------------------------------------------------------------------------
(* parse_midi_notes *)

NoteEvent(start_s, end_s, pitch, velocity, channel, track) ==
    [start_s |-> start_s, end_s |-> end_s, pitch |-> pitch,
     velocity |-> velocity, channel |-> channel, track |-> track]

\* a strict comparison, which puts a note before the equal ones already placed
KeyLeq_strict(a, b) ==
    \/ RatLess(a.start_s, b.start_s)
    \/ a.start_s = b.start_s /\ a.pitch < b.pitch

\* line 110: the sort key (e.start_s, e.pitch), compared as Python compares tuples
KeyLeq(a, b) ==
    \/ RatLess(a.start_s, b.start_s)
    \/ a.start_s = b.start_s /\ a.pitch <= b.pitch

RECURSIVE InsertEvent(_, _)
InsertEvent(sorted, x) ==
    IF sorted = <<>> THEN <<x>>
    ELSE IF KeyLeq(Head(sorted), x)
         THEN <<Head(sorted)>> \o InsertEvent(Tail(sorted), x)
         ELSE <<x>> \o sorted

RECURSIVE SortEventList(_, _)
\* line 110: events.sort(key=...), a stable sort
SortEventList(seq, acc) ==
    IF seq = <<>> THEN acc
    ELSE SortEventList(Tail(seq), InsertEvent(acc, Head(seq)))

NumMsgs(tracks) ==
    LET RECURSIVE Sum(_)
        Sum(k) == IF k = 0 THEN 0 ELSE Len(tracks[k]) + Sum(k - 1)
    IN  Sum(Len(tracks))

CurTrack == mid.tracks[track_idx + 1]
CurMsg == CurTrack[msg_idx]

\* line 85
IsNoteOn(msg) == msg.type = "note_on" /\ msg.velocity > 0
\* line 88
IsClosing(msg) == msg.type = "note_off" \/ (msg.type = "note_on" /\ msg.velocity = 0)

\* lines 86, 89: the dict key (msg.channel, msg.note)
ActiveKey(msg) == <<msg.channel, msg.note>>

\* a lookup that leaves the entry in the dict
PopActive_keep(d, k) == d

\* line 93: active.pop(key), the dict it leaves
PopActive(d, k) == DictPop(d, k)

\* the test without its equality
ShouldDrop_strict(start_s, end_s) == RatLess(end_s, start_s)

\* line 96: if end_s <= start_s: continue
ShouldDrop(start_s, end_s) == RatLeq(end_s, start_s)

\* line 73: mido.MidiFile decodes the next track header.  A decoded track is never
\* empty (it ends with its end_of_track message), so a track is started only after
\* the one before it holds a message.
LoadTrack ==
    /\ pc = "load"
    /\ Len(mid.tracks) < MaxTracks
    /\ Len(mid.tracks) > 0 => mid.tracks[Len(mid.tracks)] # <<>>
    /\ mid' = [mid EXCEPT !.tracks = Append(@, <<>>)]
    /\ UNCHANGED <<pc, tempo_map, scanVars, result, normVars, tickVars, animVars>>

LoadFrom(alphabet) ==
    /\ pc = "load"
    /\ Len(mid.tracks) > 0
    /\ NumMsgs(mid.tracks) < MaxMsgs
    /\ \E m \in alphabet :
          mid' = [mid EXCEPT !.tracks[Len(mid.tracks)] = Append(@, m)]
    /\ UNCHANGED <<pc, tempo_map, scanVars, result, normVars, tickVars, animVars>>

\* line 73: mido.MidiFile decodes the next message of the last track
LoadMsg == LoadFrom(Msgs)

\* line 73, for the files of SpecMain
LoadMainMsg == LoadFrom(MainFileMsgs)

\* line 74, and lines 76-80 for the first track
CollectTempoMap ==
    /\ pc = "load"
    /\ Len(mid.tracks) > 0 => mid.tracks[Len(mid.tracks)] # <<>>
    /\ tempo_map' = _collect_tempo_map(mid)
    /\ pc' = "scan"
    /\ track_idx' = 0
    /\ msg_idx' = 1
    /\ abs_tick' = 0
    /\ active' = EmptyDict
    /\ events' = <<>>
    /\ UNCHANGED <<mid, result, normVars, tickVars, animVars>>

\* lines 83, 85-86
NoteOn ==
    /\ pc = "scan"
    /\ track_idx < Len(mid.tracks)
    /\ msg_idx <= Len(CurTrack)
    /\ IsNoteOn(CurMsg)
    /\ abs_tick' = abs_tick + CurMsg.time
    /\ active' = DictSet(active, ActiveKey(CurMsg), <<abs_tick', CurMsg.velocity>>)
    /\ msg_idx' = msg_idx + 1
    /\ UNCHANGED <<mid, pc, tempo_map, track_idx, events, result, normVars, tickVars, animVars>>

\* lines 83, 88-108
NoteClose ==
    /\ pc = "scan"
    /\ track_idx < Len(mid.tracks)
    /\ msg_idx <= Len(CurTrack)
    /\ ~IsNoteOn(CurMsg)
    /\ IsClosing(CurMsg)
    /\ abs_tick' = abs_tick + CurMsg.time
    /\ msg_idx' = msg_idx + 1
    /\ LET key == ActiveKey(CurMsg)
       IN  IF key \notin DOMAIN active
           THEN UNCHANGED <<active, events>>
           ELSE LET start_tick == active[key][1]
                    vel == active[key][2]
                    start_s == _tick_to_seconds(start_tick, mid.ticks_per_beat, tempo_map)
                    end_s == _tick_to_seconds(abs_tick', mid.ticks_per_beat, tempo_map)
                IN  /\ active' = PopActive(active, key)
                    /\ events' = IF ShouldDrop(start_s, end_s)
                                 THEN events
                                 ELSE Append(events,
                                        NoteEvent(start_s, end_s, CurMsg.note, vel,
                                                  CurMsg.channel, track_idx))
    /\ UNCHANGED <<mid, pc, tempo_map, track_idx, result, normVars, tickVars, animVars>>

\* line 83: any other message only advances abs_tick
OtherMsg ==
    /\ pc = "scan"
    /\ track_idx < Len(mid.tracks)
    /\ msg_idx <= Len(CurTrack)
    /\ ~IsNoteOn(CurMsg) /\ ~IsClosing(CurMsg)
    /\ abs_tick' = abs_tick + CurMsg.time
    /\ msg_idx' = msg_idx + 1
    /\ UNCHANGED <<mid, pc, tempo_map, track_idx, active, events, result, normVars, tickVars, animVars>>

\* lines 78-80: the track is exhausted; the next one starts with a fresh dict
EndTrack ==
    /\ pc = "scan"
    /\ track_idx < Len(mid.tracks)
    /\ msg_idx > Len(CurTrack)
    /\ track_idx' = track_idx + 1
    /\ msg_idx' = 1
    /\ abs_tick' = 0
    /\ active' = EmptyDict
    /\ UNCHANGED <<mid, pc, tempo_map, events, result, normVars, tickVars, animVars>>

\* lines 110-111: the list is sorted in place and returned
SortEvents ==
    /\ pc = "scan"
    /\ track_idx = Len(mid.tracks)
    /\ events' = SortEventList(events, <<>>)
    /\ result' = events'
    /\ pc' = "done"
    /\ UNCHANGED <<mid, tempo_map, track_idx, msg_idx, abs_tick, active, normVars, tickVars, animVars>>

----------------------------------------------------------------------------
(* normalize_notes *)

\* an optional int argument: None, or <<x>> for the value x
None == <<>>
IsNone(a) == Len(a) = 0

MinPitch(notes) ==
    CHOOSE p \in {notes[i].pitch : i \in DOMAIN notes} :
        \A i \in DOMAIN notes : p <= notes[i].pitch

MaxPitch(notes) ==
    CHOOSE p \in {notes[i].pitch : i \in DOMAIN notes} :
        \A i \in DOMAIN notes : p >= notes[i].pitch

\* the filter with its bounds excluded
FilterPitch_exclusive(notes, pmin, pmax) ==
    LET Keep(n) == pmin < n.pitch /\ n.pitch < pmax
    IN  SelectSeq(notes, Keep)

\* line 125: the list comprehension
FilterPitch(notes, pmin, pmax) ==
    LET Keep(n) == pmin <= n.pitch /\ n.pitch <= pmax
    IN  SelectSeq(notes, Keep)

\* an empty list answered with the bounds supplied
normalize_notes_echo_bounds(notes, pitch_min, pitch_max) ==
    LET pmin == IF IsNone(pitch_min) THEN (IF notes = <<>> THEN 0 ELSE MinPitch(notes)) ELSE pitch_min[1]
        pmax == IF IsNone(pitch_max) THEN (IF notes = <<>> THEN 0 ELSE MaxPitch(notes)) ELSE pitch_max[1]
    IN  <<FilterPitch(notes, pmin, pmax), pmin, pmax>>

\* lines 119-126: the tuple (filtered, pmin, pmax)
normalize_notes(notes, pitch_min, pitch_max) ==
    IF notes = <<>> THEN <<<<>>, 0, 0>>
    ELSE LET pmin == IF IsNone(pitch_min) THEN MinPitch(notes) ELSE pitch_min[1]
             pmax == IF IsNone(pitch_max) THEN MaxPitch(notes) ELSE pitch_max[1]
         IN  <<FilterPitch(notes, pmin, pmax), pmin, pmax>>

NormalizeWith(args) ==
    /\ pc = "done"
    /\ \E pitch_min \in args, pitch_max \in args :
          normalized' = [pitch_min |-> pitch_min, pitch_max |-> pitch_max,
                         notes |-> result,
                         ret |-> normalize_notes(result, pitch_min, pitch_max)]
    /\ pc' = "normalized"
    /\ UNCHANGED <<mid, tempo_map, scanVars, result, tickVars, animVars>>

\* the bounds a caller may supply
NormArgs == {None} \cup {<<p>> : p \in 59..63}
MainNormArgs == {None, <<60>>}

\* a call of normalize_notes on a parsed list
Normalize == NormalizeWith(NormArgs)

\* the same, after the files of SpecMain
NormalizeMain == NormalizeWith(MainNormArgs)

----------------------------------------------------------------------------
(* Specifications *)

NoFile == [ticks_per_beat |-> TicksPerBeat, tracks |-> <<>>]

\* the parts of the state a specification does not use
NoTickCalls == secs = EmptyDict

NoAnimation ==
    /\ anim_args = <<>>
    /\ note_i = 1
    /\ z_keys = EmptyDict
    /\ energy_keys = EmptyDict
    /\ emission_keys = EmptyDict
    /\ path_args = <<>>
    /\ offset_keys = EmptyDict
    /\ key_log = <<>>

\* parse_midi_notes, from the opening of the file
Init ==
    /\ mid = NoFile
    /\ pc = "load"
    /\ tempo_map = <<>>
    /\ track_idx = 0
    /\ msg_idx = 1
    /\ abs_tick = 0
    /\ active = EmptyDict
    /\ events = <<>>
    /\ result = <<>>
    /\ normalized = <<>>
    /\ NoTickCalls
    /\ NoAnimation

Next ==
    \/ LoadTrack
    \/ LoadMsg
    \/ CollectTempoMap
    \/ NoteOn
    \/ NoteClose
    \/ OtherMsg
    \/ EndTrack
    \/ SortEvents

Spec == Init /\ [][Next]_vars

\* parse_midi_notes then normalize_notes, on files rich in tempo changes
NextMain ==
    \/ LoadTrack
    \/ LoadMainMsg
    \/ CollectTempoMap
    \/ NoteOn
    \/ NoteClose
    \/ OtherMsg
    \/ EndTrack
    \/ SortEvents
    \/ NormalizeMain

SpecMain == Init /\ [][NextMain]_vars

\* normalize_notes alone, on the lists parse_midi_notes can return
MaxNotes == 3

NormPitches == {60, 61, 62}
NormStarts == {Zero, <<1, 2>>}

NormEvents ==
    {NoteEvent(s, RatAdd(s, <<1, 4>>), p, 100, 0, 0) : s \in NormStarts, p \in NormPitches}

IsSortedList(notes) ==
    \A i \in 1..(Len(notes) - 1) : KeyLeq(notes[i], notes[i + 1])

NoteLists ==
    {l \in UNION {[1..n -> NormEvents] : n \in 0..MaxNotes} : IsSortedList(l)}

InitNorm ==
    /\ mid = NoFile
    /\ pc = "done"
    /\ tempo_map = <<<<0, DefaultTempo>>>>
    /\ track_idx = 0
    /\ msg_idx = 1
    /\ abs_tick = 0
    /\ active = EmptyDict
    /\ result \in NoteLists
    /\ events = result
    /\ normalized = <<>>
    /\ NoTickCalls
    /\ NoAnimation

NextNorm == Normalize

SpecNorm == InitNorm /\ [][NextNorm]_vars

\* _tick_to_seconds alone, on the tempo maps _collect_tempo_map can return
MaxTempoChanges == 3

MapTicks == {0, 240, 480, 720}
MapTempos == {250000, 500000}
TickTpqs == {1, 480}
TickInputs == {-1, 0, 1, 240, 241, 480, 960}

WellFormedMaps ==
    {m \in UNION {[1..n -> MapTicks \X MapTempos] : n \in 1..MaxTempoChanges} :
        /\ m[1][1] = 0
        /\ \A i \in 1..(Len(m) - 1) : m[i][1] < m[i + 1][1]}

\* one call _tick_to_seconds(tick, mid.ticks_per_beat, tempo_map), as lines 94-95 make them
Convert ==
    /\ pc = "convert"
    /\ \E tick \in TickInputs \ DOMAIN secs :
          secs' = DictSet(secs, tick, _tick_to_seconds(tick, mid.ticks_per_beat, tempo_map))
    /\ UNCHANGED <<mid, pc, tempo_map, scanVars, result, normVars, animVars>>

InitTick ==
    /\ \E tpq \in TickTpqs : mid = [ticks_per_beat |-> tpq, tracks |-> <<>>]
    /\ pc = "convert"
    /\ tempo_map \in WellFormedMaps
    /\ track_idx = 0
    /\ msg_idx = 1
    /\ abs_tick = 0
    /\ active = EmptyDict
    /\ events = <<>>
    /\ result = <<>>
    /\ normalized = <<>>
    /\ secs = EmptyDict
    /\ NoAnimation

NextTick == Convert

SpecTick == InitTick /\ [][NextTick]_vars

----------------------------------------------------------------------------
(* run_step1_blender.py: _sec_to_frame, animate_drop_follow_path,          *)
(* animate_bounce_and_flash, and the animate branch of main                *)

MaxOf(a, b) == IF a > b THEN a ELSE b

RatMulInt(r, k) == Rat(r[1] * k, r[2])

\* Python's round(x) of a float: the nearest integer, a tie going to the even one
RoundHalfEven(r) ==
    LET q == r[1] \div r[2]
        rem == r[1] - q * r[2]
    IN  IF 2 * rem < r[2] THEN q
        ELSE IF 2 * rem > r[2] THEN q + 1
        ELSE IF q % 2 = 0 THEN q ELSE q + 1

\* the frame counted from 0
_sec_to_frame_zero_based(sec, fps) == MaxOf(1, RoundHalfEven(RatMulInt(sec, fps)))

\* lines 252-253
_sec_to_frame(sec, fps) == MaxOf(1, RoundHalfEven(RatMulInt(sec, fps)) + 1)

\* lines 295-296: max(2, int(round(len_s * fps)))
PulseLenFrames(len_s, fps) == MaxOf(2, RoundHalfEven(RatMulInt(len_s, fps)))

\* line 298: drop.location.z of the drop ensure_drop_rig has just created
base_z == Zero
\* line 448: --bounce-amp
bounce_amp == <<1, 4>>
\* line 450: --light-peak
light_peak == <<1500, 1>>
\* line 452: --drop-emit
drop_emit_peak == <<25, 1>>

\* an insertion that leaves a key already at f as it is
KeyframeInsert_keep_existing(curve, f, v) ==
    IF f \in DOMAIN curve THEN curve ELSE DictSet(curve, f, v)

\* keyframe_insert(frame=f) with the property set to v: the key at f is v afterwards
KeyframeInsert(curve, f, v) == DictSet(curve, f, v)

\* lines 267-269 without the bump of line 269
end_frame_no_bump(start_frame, fps, total_duration_s) ==
    start_frame + RoundHalfEven(RatMulInt(total_duration_s, fps))

\* lines 267-269: end_frame of the ramp
end_frame(start_frame, fps, total_duration_s) ==
    LET e == start_frame + RoundHalfEven(RatMulInt(total_duration_s, fps))
    IN  IF e <= start_frame THEN start_frame + 1 ELSE e

One == <<1, 1>>

\* lines 263-275 on the FOLLOW_PATH constraint ensure_drop_rig has created (line 263
\* finds it): offset_factor keyed 0.0 at start_frame, then 1.0 at end_frame
FollowPath(a) ==
    LET e == end_frame(a.start_frame, a.fps, a.total_duration_s)
    IN  /\ offset_keys' =
              KeyframeInsert(KeyframeInsert(offset_keys, a.start_frame, Zero), e, One)
        /\ key_log' = key_log \o
              << <<"offset_factor", a.start_frame, Zero>>, <<"offset_factor", e, One>> >>

\* animate_drop_follow_path, called with the arguments in path_args
AnimateDropFollowPath ==
    /\ pc = "follow_path"
    /\ FollowPath(path_args)
    /\ pc' = "path_done"
    /\ UNCHANGED <<mid, tempo_map, scanVars, result, normVars, tickVars,
                   anim_args, note_i, z_keys, energy_keys, emission_keys, path_args>>

\* line 478: the floor of total_duration_s
min_duration_s == <<1, 10>>

RatMax(a, b) == IF RatLess(a, b) THEN b ELSE a

\* max(n.end_s for n in notes), notes not empty
MaxEndS(notes) ==
    LET ends == {notes[i].end_s : i \in 1..Len(notes)}
    IN  CHOOSE e \in ends : \A o \in ends : RatLeq(o, e)

\* line 478 without its floor
total_duration_s_no_floor(notes) == IF notes # <<>> THEN MaxEndS(notes) ELSE Zero

\* line 478
total_duration_s(notes) ==
    RatMax(IF notes # <<>> THEN MaxEndS(notes) ELSE Zero, min_duration_s)

\* line 256-261: start_frame: int = 1
default_start_frame == 1

\* main, lines 475-480: the duration of the piece and the call of
\* animate_drop_follow_path(drop, fps=args.fps, total_duration_s=total_duration_s);
\* the call of animate_bounce_and_flash (lines 482-492) follows
MainAnimate ==
    /\ pc = "main"
    /\ LET a == [fps |-> anim_args.fps,
                 total_duration_s |-> total_duration_s(anim_args.notes),
                 start_frame |-> default_start_frame]
       IN  /\ path_args' = a
           /\ FollowPath(a)
    /\ pc' = "animate"
    /\ UNCHANGED <<mid, tempo_map, scanVars, result, normVars, tickVars,
                   anim_args, note_i, z_keys, energy_keys, emission_keys>>

\* lines 309-341: the body of the loop, for the note at note_i
AnimateNote ==
    /\ pc = "animate"
    /\ anim_args.notes # <<>>
    /\ note_i <= Len(anim_args.notes)
    /\ LET n == anim_args.notes[note_i]
           fps == anim_args.fps
           bounce_len_f == PulseLenFrames(anim_args.bounce_len_s, fps)
           light_len_f == PulseLenFrames(anim_args.light_len_s, fps)
           f0 == _sec_to_frame(n.start_s, fps)
           f_mid == f0 + bounce_len_f \div 2
           f_end == f0 + bounce_len_f
       IN  /\ z_keys' =
                 KeyframeInsert(
                     KeyframeInsert(
                         KeyframeInsert(z_keys, f0, base_z),
                         f_mid, RatAdd(base_z, bounce_amp)),
                     f_end, base_z)
           /\ energy_keys' =
                 KeyframeInsert(
                     KeyframeInsert(
                         KeyframeInsert(energy_keys, f0, Zero),
                         f0 + 1, light_peak),
                     f0 + light_len_f, Zero)
           /\ emission_keys' =
                 KeyframeInsert(
                     KeyframeInsert(
                         KeyframeInsert(emission_keys, f0, Zero),
                         f0 + 1, drop_emit_peak),
                     f0 + light_len_f, Zero)
           /\ key_log' = key_log \o
                 << <<"z", f0, base_z>>,
                    <<"z", f_mid, RatAdd(base_z, bounce_amp)>>,
                    <<"z", f_end, base_z>>,
                    <<"energy", f0, Zero>>,
                    <<"energy", f0 + 1, light_peak>>,
                    <<"energy", f0 + light_len_f, Zero>>,
                    <<"emission", f0, Zero>>,
                    <<"emission", f0 + 1, drop_emit_peak>>,
                    <<"emission", f0 + light_len_f, Zero>> >>
    /\ note_i' = note_i + 1
    /\ UNCHANGED <<mid, pc, tempo_map, scanVars, result, normVars, tickVars,
                   anim_args, path_args, offset_keys>>

\* lines 292-293 and 343: no notes, or no notes left
AnimateReturn ==
    /\ pc = "animate"
    /\ anim_args.notes = <<>> \/ note_i > Len(anim_args.notes)
    /\ pc' = "animated"
    /\ UNCHANGED <<mid, tempo_map, scanVars, result, normVars, tickVars, animVars>>

\* the animate branch of main, on short sorted note lists
MaxAnimNotes == 2

AnimStarts == {Zero, <<1, 60>>, <<1, 20>>, <<1, 2>>, <<1, 1>>}
AnimFps == {1, 24, 30, 60}
BounceLens == {Zero, <<1, 10>>, <<1, 4>>}
LightLens == {<<3, 50>>, <<1, 10>>}

AnimEvents == {NoteEvent(s, RatAdd(s, <<1, 4>>), 60, 100, 0, 0) : s \in AnimStarts}

AnimNoteLists ==
    {l \in UNION {[1..n -> AnimEvents] : n \in 0..MaxAnimNotes} : IsSortedList(l)}

InitAnim ==
    /\ mid = NoFile
    /\ pc = "main"
    /\ tempo_map = <<<<0, DefaultTempo>>>>
    /\ track_idx = 0
    /\ msg_idx = 1
    /\ abs_tick = 0
    /\ active = EmptyDict
    /\ events = <<>>
    /\ result = <<>>
    /\ normalized = <<>>
    /\ NoTickCalls
    /\ anim_args \in [notes : AnimNoteLists, fps : AnimFps,
                      bounce_len_s : BounceLens, light_len_s : LightLens]
    /\ note_i = 1
    /\ z_keys = EmptyDict
    /\ energy_keys = EmptyDict
    /\ emission_keys = EmptyDict
    /\ path_args = <<>>
    /\ offset_keys = EmptyDict
    /\ key_log = <<>>

NextAnim ==
    \/ MainAnimate
    \/ AnimateNote
    \/ AnimateReturn

SpecAnim == InitAnim /\ [][NextAnim]_vars

\* animate_drop_follow_path alone, called with any arguments
PathStartFrames == {0, 1, 10}
PathDurations == {Zero, <<1, 100>>, <<1, 60>>, <<1, 20>>, <<1, 10>>, <<1, 2>>, One}

InitPath ==
    /\ mid = NoFile
    /\ pc = "follow_path"
    /\ tempo_map = <<<<0, DefaultTempo>>>>
    /\ track_idx = 0
    /\ msg_idx = 1
    /\ abs_tick = 0
    /\ active = EmptyDict
    /\ events = <<>>
    /\ result = <<>>
    /\ normalized = <<>>
    /\ NoTickCalls
    /\ anim_args = <<>>
    /\ note_i = 1
    /\ z_keys = EmptyDict
    /\ energy_keys = EmptyDict
    /\ emission_keys = EmptyDict
    /\ path_args \in [fps : AnimFps, total_duration_s : PathDurations,
                      start_frame : PathStartFrames]
    /\ offset_keys = EmptyDict
    /\ key_log = <<>>

NextPath == AnimateDropFollowPath

SpecPath == InitPath /\ [][NextPath]_vars

----------------------------------------------------------------------------
(* What the input says, read off the file itself. *)

----------------------------------------------------------------------------
(* C1 *)

MinOf(a, b) == IF a < b THEN a ELSE b

\* ticks x microseconds-per-beat up to tick: each segment that starts before tick, for
\* the ticks of it that lie before tick, at its own tempo
RECURSIVE PiecewiseSum(_, _, _)
PiecewiseSum(tick, tmap, i) ==
    IF i > Len(tmap) THEN 0
    ELSE LET stop == IF i < Len(tmap) THEN MinOf(tick, tmap[i + 1][1]) ELSE tick
             part == IF tmap[i][1] < tick THEN (stop - tmap[i][1]) * tmap[i][2] ELSE 0
         IN  part + PiecewiseSum(tick, tmap, i + 1)

ExampleMap == <<<<0, 500000>>, <<480, 250000>>>>

\* C1: for a well-formed tempo map and tick > 0, _tick_to_seconds is the sum over the
\* segments that start before tick of (ticks covered) x (the segment's own tempo)
\* / 1000000 / ticks_per_beat; map [(0,500000),(480,250000)] at 480 ticks per beat
\* gives 0.5 s at tick 480 and 0.75 s at tick 960.
C1_PiecewiseTempo ==
    /\ \A tick \in DOMAIN secs :
          tick > 0 =>
             secs[tick] = Rat(PiecewiseSum(tick, tempo_map, 1), 1000000 * mid.ticks_per_beat)
    /\ (tempo_map = ExampleMap /\ mid.ticks_per_beat = 480) =>
          /\ 480 \in DOMAIN secs => secs[480] = <<1, 2>>
          /\ 960 \in DOMAIN secs => secs[960] = <<3, 4>>

\* the two-segment example, converted at the change and after it
C1_Witness ==
    /\ tempo_map = ExampleMap
    /\ mid.ticks_per_beat = 480
    /\ {480, 960} \subseteq DOMAIN secs
    /\ secs[480] = <<1, 2>>
    /\ secs[960] = <<3, 4>>

----------------------------------------------------------------------------
(* C2 *)

\* C2: for one tempo map, _tick_to_seconds is never negative, never decreases as the
\* tick grows, and is 0 for every tick <= 0.
C2_Monotone ==
    /\ \A tick \in DOMAIN secs :
          /\ RatLeq(Zero, secs[tick])
          /\ tick <= 0 => secs[tick] = Zero
    /\ \A t1, t2 \in DOMAIN secs : t1 <= t2 => RatLeq(secs[t1], secs[t2])

\* a three-segment map converted at every tick of the model, past both changes
C2_Witness ==
    /\ Len(tempo_map) = 3
    /\ tempo_map[2][2] # tempo_map[1][2]
    /\ DOMAIN secs = TickInputs
    /\ RatLess(secs[480], secs[960])
    /\ secs[-1] = Zero


RECURSIVE AbsTickAt(_, _)
\* the absolute tick of message i of a track: the sum of the deltas up to it
AbsTickAt(tr, i) == IF i = 0 THEN 0 ELSE AbsTickAt(tr, i - 1) + tr[i].time

IsNoteMsg(m) == m.type \in {"note_on", "note_off"}
Strikes(m) == m.type = "note_on" /\ m.velocity >= 1
Closes(m) == m.type = "note_off" \/ (m.type = "note_on" /\ m.velocity = 0)
KeyOf(m) == <<m.channel, m.note>>

AllKeys == (0..1) \X (60..61)

\* the last message of key k among the first n of a track, 0 when there is none
LastKeyMsg(tr, n, k) ==
    LET js == {j \in 1..n : IsNoteMsg(tr[j]) /\ KeyOf(tr[j]) = k}
    IN  IF js = {} THEN 0 ELSE CHOOSE j \in js : \A x \in js : x <= j

\* the set_tempo messages of the file, as <<track, index>>
TempoPlaces ==
    {<<k, i>> \in (1..Len(mid.tracks)) \X (1..MaxMsgs + 1) :
        i <= Len(mid.tracks[k]) /\ mid.tracks[k][i].type = "set_tempo"}

TempoTickOf(pl) == AbsTickAt(mid.tracks[pl[1]], pl[2])

Scanning == pc = "scan" /\ track_idx < Len(mid.tracks)
AtMsg == Scanning /\ msg_idx <= Len(CurTrack)

----------------------------------------------------------------------------
(* C3 *)

\* C3: the tempo map _collect_tempo_map returns is strictly increasing by tick (so
\* holds one entry per tick at most), starts at tick 0, and starts with (0, 500000)
\* when the file has no set_tempo at tick 0.
C3_TempoMapWellFormed ==
    pc # "load" =>
        /\ Len(tempo_map) >= 1
        /\ tempo_map[1][1] = 0
        /\ \A i \in 1..(Len(tempo_map) - 1) : tempo_map[i][1] < tempo_map[i + 1][1]
        /\ (\A pl \in TempoPlaces : TempoTickOf(pl) # 0) => tempo_map[1] = <<0, 500000>>

\* several tracks, two set_tempo on one later tick, none at tick 0
C3_Witness ==
    /\ pc = "scan"
    /\ Len(mid.tracks) = 2
    /\ \A pl \in TempoPlaces : TempoTickOf(pl) # 0
    /\ \E a, b \in TempoPlaces : a # b /\ TempoTickOf(a) = TempoTickOf(b)
    /\ Len(tempo_map) = 2

----------------------------------------------------------------------------
(* C4 *)

\* the messages parse_midi_notes has consumed so far, as <<track, index>>
Consumed ==
    {<<k, i>> \in (1..Len(mid.tracks)) \X (1..MaxMsgs + 1) :
        /\ i <= Len(mid.tracks[k])
        /\ \/ pc \in {"done", "normalized"}
           \/ pc = "scan" /\ (k <= track_idx \/ (k = track_idx + 1 /\ i < msg_idx))}

\* a closing message at pl whose key was last struck before it in its track
Matched(pl) ==
    LET tr == mid.tracks[pl[1]]
        j == LastKeyMsg(tr, pl[2] - 1, KeyOf(tr[pl[2]]))
    IN  Closes(tr[pl[2]]) /\ j # 0 /\ Strikes(tr[j])

\* a matched closing message on the very tick of its strike
ZeroLength(pl) ==
    LET tr == mid.tracks[pl[1]]
        j == LastKeyMsg(tr, pl[2] - 1, KeyOf(tr[pl[2]]))
    IN  Matched(pl) /\ AbsTickAt(tr, j) = AbsTickAt(tr, pl[2])

C4_Valid(e) ==
    /\ RatLess(e.start_s, e.end_s)
    /\ 0 <= e.pitch /\ e.pitch <= 127
    /\ e.velocity >= 1

C4_AllValid ==
    /\ \A i \in DOMAIN events : C4_Valid(events[i])
    /\ \A i \in DOMAIN result : C4_Valid(result[i])

C4_DropStep ==
    (AtMsg /\ ZeroLength(<<track_idx + 1, msg_idx>>)) => events' = events

\* C4: every emitted NoteEvent has end_s > start_s, a pitch in 0..127 and a velocity
\* >= 1, and a pairing that ends on the tick it starts on emits nothing.
C4_EmittedNotesValid == []C4_AllValid /\ [][C4_DropStep]_vars

\* a file with a same-tick pairing and a real note, parsed to the end
C4_Witness ==
    /\ pc = "done"
    /\ Len(result) = 1
    /\ \E pl \in Consumed : ZeroLength(pl)
    /\ \E pl \in Consumed : Matched(pl) /\ ~ZeroLength(pl)

----------------------------------------------------------------------------
(* C5 *)

C5_PendingMatchesHistory ==
    /\ DOMAIN active \subseteq AllKeys
    /\ Scanning =>
          \A k \in AllKeys :
             LET j == LastKeyMsg(CurTrack, msg_idx - 1, k)
             IN  IF j # 0 /\ Strikes(CurTrack[j])
                 THEN /\ k \in DOMAIN active
                      /\ active[k] = <<AbsTickAt(CurTrack, j), CurTrack[j].velocity>>
                 ELSE k \notin DOMAIN active

C5_Scenario ==
    (/\ pc = "done"
     /\ mid.tracks = <<<<NoteOnMsg(0, 0, 60, 100), NoteOnMsg(10, 0, 60, 90), NoteOffMsg(10, 0, 60)>>>>)
    => result = <<NoteEvent(<<1, 96>>, <<1, 48>>, 60, 90, 0, 0)>>

C5_Step ==
    /\ (AtMsg /\ Strikes(CurMsg)) => events' = events
    /\ (AtMsg /\ events' # events) =>
          LET j == LastKeyMsg(CurTrack, msg_idx - 1, KeyOf(CurMsg))
              e == events'[Len(events')]
          IN  /\ j # 0
              /\ e.velocity = CurTrack[j].velocity
              /\ e.start_s = _tick_to_seconds(AbsTickAt(CurTrack, j), mid.ticks_per_beat, tempo_map)
              /\ <<e.channel, e.pitch>> = KeyOf(CurMsg)
              /\ e.track = track_idx

\* C5: a note-on emits nothing and replaces the pending onset of its own key only, so
\* the pending onset of a key is always its track's latest note-on, and the NoteEvent a
\* closing message emits carries that note-on's tick and velocity (v100 at 0, v90 at
\* 10, off at 20: one NoteEvent, from tick 10, velocity 90).
C5_OverwriteSemantics ==
    [](C5_PendingMatchesHistory /\ C5_Scenario) /\ [][C5_Step]_vars

\* the scenario with a note-on of another channel between the two onsets
C5_Witness ==
    /\ pc = "done"
    /\ mid.tracks = <<<<NoteOnMsg(0, 0, 60, 100), NoteOnMsg(0, 1, 60, 90),
                        NoteOnMsg(10, 0, 60, 90), NoteOffMsg(10, 0, 60)>>>>
    /\ result = <<NoteEvent(<<1, 96>>, <<1, 48>>, 60, 90, 0, 0)>>

----------------------------------------------------------------------------
(* C6 *)

ClosingPlaces == {pl \in Consumed : Closes(mid.tracks[pl[1]][pl[2]])}
MatchedPlaces == {pl \in Consumed : Matched(pl)}

C6_Counts ==
    /\ Len(events) <= Cardinality(MatchedPlaces)
    /\ Len(events) <= Cardinality(ClosingPlaces)

C6_Step ==
    /\ (AtMsg /\ Closes(CurMsg) /\ KeyOf(CurMsg) \notin DOMAIN active)
          => (events' = events /\ active' = active)
    /\ (Scanning /\ ~AtMsg) => (events' = events /\ active' = EmptyDict)
    /\ (pc = "scan" /\ pc' = "scan" /\ events' # events) =>
          /\ AtMsg
          /\ Closes(CurMsg)
          /\ KeyOf(CurMsg) \in DOMAIN active
          /\ KeyOf(CurMsg) \notin DOMAIN active'
          /\ Len(events') = Len(events) + 1
          /\ SubSeq(events', 1, Len(events)) = events

\* C6: a NoteEvent is emitted only by a closing message that takes its key from Active
\* to Inactive; a closing message for an Inactive key changes neither the emitted list
\* nor the pending onsets; the end of a track discards its pending onsets and emits
\* nothing; so the emitted notes never outnumber the closing messages.
C6_EmitOnlyOnClose == []C6_Counts /\ [][C6_Step]_vars

\* one note emitted, a key left Active at the end of a track, a closing message with
\* no onset before it in its own track
C6_Witness ==
    /\ pc = "done"
    /\ Len(result) = 1
    /\ Cardinality(ClosingPlaces) = 2
    /\ Cardinality(MatchedPlaces) = 1
    /\ \E k \in 1..Len(mid.tracks) : \E key \in AllKeys :
          LET j == LastKeyMsg(mid.tracks[k], Len(mid.tracks[k]), key)
          IN  j # 0 /\ Strikes(mid.tracks[k][j])

----------------------------------------------------------------------------
(* C7 *)

Perms(n) == {p \in [1..n -> 1..n] : \A i, j \in 1..n : p[i] = p[j] => i = j}

SameSortKey(a, b) == a.start_s = b.start_s /\ a.pitch = b.pitch

\* a before b by (start_s, pitch), or level with it
InOrder(a, b) ==
    \/ RatLess(a.start_s, b.start_s)
    \/ a.start_s = b.start_s /\ a.pitch <= b.pitch

StableSortedPerm(in, out) ==
    /\ Len(out) = Len(in)
    /\ \E p \in Perms(Len(in)) :
          /\ \A i \in 1..Len(in) : out[i] = in[p[i]]
          /\ \A i, j \in 1..Len(in) :
                i < j => /\ InOrder(out[i], out[j])
                         /\ SameSortKey(out[i], out[j]) => p[i] < p[j]

C7_Step ==
    /\ (pc = "scan" /\ pc' = "done") => StableSortedPerm(events, result')
    /\ (pc = "scan" /\ pc' = "scan" /\ events' # events) =>
          /\ events' = Append(events, events'[Len(events')])
          /\ events'[Len(events')].track = track_idx
          /\ \A i \in DOMAIN events : events[i].track <= track_idx

\* C7: parse_midi_notes returns the emitted NoteEvents, which were emitted track by
\* track in the order of their closing messages, permuted into (start_s, pitch)
\* ascending order, notes with equal start_s and pitch keeping their emission order.
C7_SortedStable == [][C7_Step]_vars

\* two notes with the same start and pitch from two tracks, returned in track order
C7_Witness ==
    /\ pc = "done"
    /\ Len(result) = 2
    /\ SameSortKey(result[1], result[2])
    /\ result[1].track = 0
    /\ result[2].track = 1

----------------------------------------------------------------------------
(* C9 *)

NoNoteMsgs ==
    \A k \in 1..Len(mid.tracks) : \A i \in 1..Len(mid.tracks[k]) : ~IsNoteMsg(mid.tracks[k][i])

\* C9: a file with no note message parses to the empty list, and normalize_notes of
\* an empty list returns ([], 0, 0) whatever bounds are supplied.
C9_EmptyInput ==
    /\ (pc \in {"done", "normalized"} /\ NoNoteMsgs) => result = <<>>
    /\ (pc = "normalized" /\ normalized.notes = <<>>) => normalized.ret = <<<<>>, 0, 0>>

\* a file of tempo changes only, normalized with both bounds supplied
C9_Witness ==
    /\ pc = "normalized"
    /\ NoNoteMsgs
    /\ NumMsgs(mid.tracks) >= 2
    /\ normalized.pitch_min = <<60>>
    /\ normalized.pitch_max = <<60>>
    /\ normalized.ret = <<<<>>, 0, 0>>

----------------------------------------------------------------------------
(* C8 *)

\* the positions of the notes whose pitch lies in lo..hi
KeptAt(notes, lo, hi) == {i \in DOMAIN notes : lo <= notes[i].pitch /\ notes[i].pitch <= hi}

\* out is the notes at the positions in kept, in their order in notes
IsSelection(notes, kept, out) ==
    /\ Len(out) = Cardinality(kept)
    /\ \A i \in kept : out[Cardinality({x \in kept : x <= i})] = notes[i]

IsLowestPitch(notes, p) ==
    /\ \E i \in DOMAIN notes : notes[i].pitch = p
    /\ \A i \in DOMAIN notes : p <= notes[i].pitch

IsHighestPitch(notes, p) ==
    /\ \E i \in DOMAIN notes : notes[i].pitch = p
    /\ \A i \in DOMAIN notes : p >= notes[i].pitch

\* C8: for a non-empty list normalize_notes returns the notes with pmin <= pitch <=
\* pmax in input order, pmin and pmax being the bounds supplied or else the lowest
\* and highest pitch present; with neither supplied it returns the list unchanged.
C8_NormalizeFilter ==
    (pc = "normalized" /\ normalized.notes # <<>>) =>
        LET notes == normalized.notes
            filtered == normalized.ret[1]
            pmin == normalized.ret[2]
            pmax == normalized.ret[3]
        IN  /\ IF IsNone(normalized.pitch_min)
               THEN IsLowestPitch(notes, pmin)
               ELSE pmin = normalized.pitch_min[1]
            /\ IF IsNone(normalized.pitch_max)
               THEN IsHighestPitch(notes, pmax)
               ELSE pmax = normalized.pitch_max[1]
            /\ IsSelection(notes, KeptAt(notes, pmin, pmax), filtered)
            /\ (IsNone(normalized.pitch_min) /\ IsNone(normalized.pitch_max))
                  => filtered = notes

\* three notes of three pitches, the lowest cut off by pitch_min, pitch_max defaulted
C8_Witness ==
    /\ pc = "normalized"
    /\ Len(normalized.notes) = 3
    /\ {normalized.notes[i].pitch : i \in 1..3} = {60, 61, 62}
    /\ normalized.pitch_min = <<61>>
    /\ normalized.pitch_max = None
    /\ Len(normalized.ret[1]) = 2
    /\ normalized.ret[3] = 62

----------------------------------------------------------------------------
(* C10 *)

MaxRound == 70

\* r is the integer nearest to the rational x, the even one of two equally near
IsNearest(x, r) ==
    LET twice == 2 * Abs(x[1] - r * x[2])
    IN  /\ twice <= x[2]
        /\ twice = x[2] => r % 2 = 0

NearestInt(x) == CHOOSE r \in 0..MaxRound : IsNearest(x, r)

\* the curve holds exactly value v at frame f
KeyAt(curve, f, v) == f \in DOMAIN curve /\ curve[f] = v

C10_Pulse ==
    (pc = "animate" /\ note_i' = note_i + 1) =>
        LET n == anim_args.notes[note_i]
            fps == anim_args.fps
            anchor == NearestInt(<<n.start_s[1] * fps, n.start_s[2]>>) + 1
            f0 == IF anchor < 1 THEN 1 ELSE anchor
            bl == NearestInt(<<anim_args.bounce_len_s[1] * fps, anim_args.bounce_len_s[2]>>)
            ll == NearestInt(<<anim_args.light_len_s[1] * fps, anim_args.light_len_s[2]>>)
            len_b == IF bl < 2 THEN 2 ELSE bl
            len_l == IF ll < 2 THEN 2 ELSE ll
        IN  /\ KeyAt(z_keys', f0, Zero)
            /\ KeyAt(z_keys', f0 + len_b \div 2, <<1, 4>>)
            /\ KeyAt(z_keys', f0 + len_b, Zero)
            /\ DOMAIN z_keys' = DOMAIN z_keys \cup {f0, f0 + len_b \div 2, f0 + len_b}
            /\ KeyAt(energy_keys', f0, Zero)
            /\ KeyAt(energy_keys', f0 + 1, <<1500, 1>>)
            /\ KeyAt(energy_keys', f0 + len_l, Zero)
            /\ DOMAIN energy_keys' = DOMAIN energy_keys \cup {f0, f0 + 1, f0 + len_l}
            /\ 1 <= f0
            /\ f0 < f0 + len_b \div 2 /\ f0 + len_b \div 2 < f0 + len_b
            /\ f0 + 1 < f0 + len_l
            /\ (n.start_s = <<1, 1>> /\ fps = 30 /\ anim_args.bounce_len_s = <<1, 10>>)
                  => DOMAIN z_keys' = DOMAIN z_keys \cup {31, 32, 34}

\* C10: each note's pulses are anchored at f0 = max(1, round(start_s x fps) + 1) with
\* len_f = max(2, round(duration_s x fps)): bounce keys at f0, f0 + len_f div 2 and
\* f0 + len_f valued 0, peak, 0, flash keys at f0, f0 + 1 and f0 + len_f valued
\* 0, peak, 0; the three frames of a pulse are >= 1 and strictly increasing; start_s
\* 1.0 at 30 fps with a 0.1 s bounce gives frames 31, 32, 34.
C10_PulseFrames == [][C10_Pulse]_vars

\* the scenario: one note at 1.0 s, 30 fps, a 0.1 s bounce, keyed at 31, 32, 34
C10_Witness ==
    /\ pc = "animated"
    /\ Len(anim_args.notes) = 1
    /\ anim_args.notes[1].start_s = <<1, 1>>
    /\ anim_args.fps = 30
    /\ anim_args.bounce_len_s = <<1, 10>>
    /\ DOMAIN z_keys = {31, 32, 34}
    /\ z_keys[32] = <<1, 4>>

----------------------------------------------------------------------------
(* C11 *)

\* the ramp the constraint holds: exactly the two keys (from, 0) and (to, 1)
IsRamp(curve, from, to) ==
    /\ DOMAIN curve = {from, to}
    /\ from < to
    /\ curve[from] = <<0, 1>>
    /\ curve[to] = <<1, 1>>

\* C11: the path-follow ramp ends strictly after it starts: end_frame is
\* start_frame + round(total_duration_s x fps), or start_frame + 1 when that is not
\* greater than start_frame; the two keyframes are (start_frame, 0) and (end_frame, 1)
\* with end_frame > start_frame; start_frame 1, duration 0, fps 30 gives end_frame 2.
C11_RampEndsAfterStart ==
    pc = "path_done" =>
        LET sf == path_args.start_frame
            d == path_args.total_duration_s
            r == NearestInt(<<d[1] * path_args.fps, d[2]>>)
            e == IF sf + r > sf THEN sf + r ELSE sf + 1
        IN  /\ IsRamp(offset_keys, sf, e)
            /\ e > sf
            /\ (sf = 1 /\ d = <<0, 1>> /\ path_args.fps = 30) => e = 2

\* the scenario: start_frame 1, duration 0, 30 fps, keyed at 1 and 2
C11_Witness ==
    /\ pc = "path_done"
    /\ path_args = [fps |-> 30, total_duration_s |-> <<0, 1>>, start_frame |-> 1]
    /\ DOMAIN offset_keys = {1, 2}
    /\ offset_keys[1] = <<0, 1>>
    /\ offset_keys[2] = <<1, 1>>

----------------------------------------------------------------------------
(* C12 *)

\* the run is in the degenerate case: main animates an empty note list
EmptyNoteList == pc \in {"main", "animate", "animated"} /\ anim_args.notes = <<>>

\* C12, as stated: with an empty note list (duration 0) the schedule still holds
\* a minimal valid envelope spanning exactly one frame, never an empty one.
C12_OneFrameEnvelope ==
    (EmptyNoteList /\ pc = "animated") =>
        /\ offset_keys # EmptyDict
        /\ \E f \in DOMAIN offset_keys : IsRamp(offset_keys, f, f + 1)

\* C12: with an empty note list the animate branch does not fail; the bounce and
\* flash channels get no keyframe at all, and the path-follow ramp is keyed for the
\* floor duration of 0.1 s: (1, 0) and (end_frame, 1) with
\* end_frame = 1 + max(1, round(0.1 x fps)), frames 1 and 4 at 30 fps.
C12_DegenerateCase ==
    EmptyNoteList =>
        /\ pc = "main" => ENABLED MainAnimate
        /\ pc = "animate" => ENABLED AnimateReturn
        /\ z_keys = EmptyDict /\ energy_keys = EmptyDict /\ emission_keys = EmptyDict
        /\ pc # "main" =>
              LET r == NearestInt(<<anim_args.fps, 10>>)
                  e == 1 + (IF r < 1 THEN 1 ELSE r)
              IN  /\ path_args.total_duration_s = <<1, 10>>
                  /\ path_args.start_frame = 1
                  /\ IsRamp(offset_keys, 1, e)
                  /\ anim_args.fps = 30 => e = 4

\* an empty note list at 30 fps: the ramp runs from frame 1 to frame 4 and the
\* bounce and flash channels are empty
C12_Witness ==
    /\ pc = "animated"
    /\ anim_args.notes = <<>>
    /\ anim_args.fps = 30
    /\ DOMAIN offset_keys = {1, 4}
    /\ offset_keys[1] = <<0, 1>>
    /\ offset_keys[4] = <<1, 1>>
    /\ z_keys = EmptyDict
    /\ energy_keys = EmptyDict

----------------------------------------------------------------------------
(* C13 *)

\* place a is scanned before place b: tracks in index order, messages in order
ScannedBefore(a, b) == a[1] < b[1] \/ (a[1] = b[1] /\ a[2] < b[2])

\* the one map of the file: an entry per tick that carries a set_tempo in any
\* track, valued by the one scanned last among those of the tick, and the default
\* at tick 0 otherwise
C13_Map ==
    pc # "load" =>
        LET places == TempoPlaces
        IN  /\ \A pl \in places :
                  \E i \in 1..Len(tempo_map) : tempo_map[i][1] = TempoTickOf(pl)
            /\ \A i \in 1..Len(tempo_map) :
                  LET t == tempo_map[i][1]
                      here == {pl \in places : TempoTickOf(pl) = t}
                  IN  /\ \A j \in 1..Len(tempo_map) : tempo_map[j][1] = t => j = i
                      /\ IF here = {}
                         THEN tempo_map[i] = <<0, 500000>>
                         ELSE \E pl \in here :
                                  /\ \A o \in here : o = pl \/ ScannedBefore(o, pl)
                                  /\ tempo_map[i][2] = mid.tracks[pl[1]][pl[2]].tempo
            /\ tempo_map[1][1] = 0

\* the time of absolute tick t under the one map
TimeOnMap(t) == Rat(PiecewiseSum(t, tempo_map, 1), 1000000 * mid.ticks_per_beat)

\* a note emitted from any track is timed by that one map: its start and its end
\* are the times on the map of a strike and of a later closing message of its key
\* in its own track
C13_TimedBy(e) ==
    LET tr == mid.tracks[e.track + 1]
    IN  \E i, j \in 1..Len(tr) :
            /\ i < j
            /\ Strikes(tr[i]) /\ KeyOf(tr[i]) = <<e.channel, e.pitch>>
            /\ Closes(tr[j]) /\ KeyOf(tr[j]) = <<e.channel, e.pitch>>
            /\ e.start_s = TimeOnMap(AbsTickAt(tr, i))
            /\ e.end_s = TimeOnMap(AbsTickAt(tr, j))

C13_Timing ==
    /\ \A n \in 1..Len(events) : C13_TimedBy(events[n])
    /\ \A n \in 1..Len(result) : C13_TimedBy(result[n])
    /\ (pc = "done" /\ mid.tracks = << <<NoteOnMsg(0, 0, 60, 100), NoteOffMsg(10, 0, 60)>>,
                                         <<SetTempoMsg(0, 250000)>> >>)
          => (Len(result) = 1 /\ result[1].end_s = <<1, 192>>)

\* C13: tempo is global and the duplicate-tick tie-break is scan order: a set_tempo
\* in any track enters the single tempo map that times the notes of every track;
\* of several set_tempo on one absolute tick, in one track or in several, the map
\* holds the one scanned last (tracks in index order, messages in order within a
\* track); a set_tempo at tick 0 replaces the 500000 default.
C13_GlobalTempo == C13_Map /\ C13_Timing

\* a note of the first track timed by the tempo of the second: both tracks set the
\* tempo at tick 0, the second track's value is the one the map holds
C13_Witness ==
    /\ pc = "done"
    /\ mid.tracks = << <<SetTempoMsg(0, 1000000), NoteOnMsg(0, 0, 60, 100),
                         NoteOffMsg(10, 0, 60)>>,
                       <<SetTempoMsg(0, 250000)>> >>
    /\ tempo_map = <<<<0, 250000>>>>
    /\ Len(result) = 1
    /\ result[1].track = 0
    /\ result[1].end_s = <<1, 192>>

----------------------------------------------------------------------------
(* C14 *)

Channels == {"z", "energy", "emission"}

CurveOf(ch) ==
    IF ch = "z" THEN z_keys ELSE IF ch = "energy" THEN energy_keys ELSE emission_keys

\* the positions of the log that write frame f of channel ch
WritesAt(ch, f) == {i \in 1..Len(key_log) : key_log[i][1] = ch /\ key_log[i][2] = f}

LastOf(S) == CHOOSE i \in S : \A j \in S : j <= i

\* the note a log entry of a channel belongs to: main logs the two keys of the
\* path-follow ramp first, then each note logs nine
NoteOfEntry(i) == (i - 3) \div 9 + 1

\* the frames note k keys on channel ch and the values it keys there, restated
\* from the arguments
PulseOf(ch, k) ==
    LET n == anim_args.notes[k]
        fps == anim_args.fps
        anchor == NearestInt(<<n.start_s[1] * fps, n.start_s[2]>>) + 1
        f0 == IF anchor < 1 THEN 1 ELSE anchor
        bl == NearestInt(<<anim_args.bounce_len_s[1] * fps, anim_args.bounce_len_s[2]>>)
        ll == NearestInt(<<anim_args.light_len_s[1] * fps, anim_args.light_len_s[2]>>)
        len_b == IF bl < 2 THEN 2 ELSE bl
        len_l == IF ll < 2 THEN 2 ELSE ll
    IN  IF ch = "z"
        THEN << <<f0, <<0, 1>> >>, <<f0 + len_b \div 2, <<1, 4>> >>, <<f0 + len_b, <<0, 1>> >> >>
        ELSE << <<f0, <<0, 1>> >>,
                <<f0 + 1, IF ch = "energy" THEN <<1500, 1>> ELSE <<25, 1>> >>,
                <<f0 + len_l, <<0, 1>> >> >>

\* the notes whose pulse on channel ch has a key at frame f
NotesAt(ch, f) ==
    {k \in 1..Len(anim_args.notes) : \E p \in 1..3 : PulseOf(ch, k)[p][1] = f}

\* C14: last write wins: the value a channel (bounce, flash) holds at a frame is the
\* value of the last keyframe written at that frame, so where the pulses of two notes
\* land on one frame the later note of the sorted list has overwritten the earlier
\* note's key; the three keyframes of one note never land on the same frame.
C14_LastWriteWins ==
    (pc \in {"animate", "animated"}) =>
        \A ch \in Channels :
            /\ DOMAIN CurveOf(ch) = {key_log[i][2] : i \in {j \in 1..Len(key_log) : key_log[j][1] = ch}}
            /\ \A f \in DOMAIN CurveOf(ch) :
                  CurveOf(ch)[f] = key_log[LastOf(WritesAt(ch, f))][3]
            /\ \A i, j \in 1..Len(key_log) :
                  (i < j /\ key_log[i][1] = ch /\ key_log[j][1] = ch
                         /\ key_log[i][2] = key_log[j][2])
                      => NoteOfEntry(i) < NoteOfEntry(j)
            /\ pc = "animated" =>
                  \A f \in DOMAIN CurveOf(ch) :
                      /\ NotesAt(ch, f) # {}
                      /\ LET pulse == PulseOf(ch, LastOf(NotesAt(ch, f)))
                         IN  \E p \in 1..3 :
                                 /\ pulse[p] = <<f, CurveOf(ch)[f]>>
                                 /\ \A q \in 1..3 : pulse[q][1] = f => q = p

\* two notes 0.05 s apart at 24 fps with a 0.1 s bounce: the first keys frames 1, 2, 3,
\* the second frames 2, 3, 4; frame 2 holds the second note's base over the first
\* note's peak, frame 3 the second note's peak over the first note's base
C14_Witness ==
    /\ pc = "animated"
    /\ Len(anim_args.notes) = 2
    /\ anim_args.notes[1].start_s = <<0, 1>>
    /\ anim_args.notes[2].start_s = <<1, 20>>
    /\ anim_args.fps = 24
    /\ anim_args.bounce_len_s = <<1, 10>>
    /\ DOMAIN z_keys = {1, 2, 3, 4}
    /\ z_keys[2] = <<0, 1>>
    /\ z_keys[3] = <<1, 4>>
    /\ Cardinality(WritesAt("z", 2)) = 2

=============================================================================
